---- MODULE Spec2Model ----
(***************************************************************************)
(* shelter-core: the C FFI boundary of shelter.nvim                        *)
(* (crates/shelter-core/src/ffi.rs, types.rs).                             *)
(*                                                                         *)
(* The state is the allocator's heap (every allocation that crossed or     *)
(* will cross the boundary), the set of handles the caller holds, and the  *)
(* record of the last boundary call.  Pointers are addresses 1, 2, ...;    *)
(* NULL is 0.  Text is a sequence of bytes 0..255; characters are Unicode  *)
(* scalar values obtained by UTF-8 decoding.                               *)
(***************************************************************************)
EXTENDS Integers, Sequences, FiniteSets, TLC

VARIABLES heap, live, call, memErr

vars == <<heap, live, call, memErr>>

(***************************************************************************)
(* Bounds of the model.                                                    *)
(***************************************************************************)
\* longest input text handed to shelter_parse, in bytes
MaxLen == 3
\* longest tokenizer output, in items
MaxItems == 2
\* longest value handed to a masking function, in bytes
MaxValLen == 4
\* largest show_start / show_end / min_mask / output_len / mask_length
MaxShow == 2
\* most handles the caller holds at once
MaxLive == 2

(***************************************************************************)
(* Program constants.                                                      *)
(***************************************************************************)
NULL == 0
\* b'\n'
NL == 10

Range(s) == {s[i] : i \in DOMAIN s}

SeqsUpTo(S, n) == UNION {[1..k -> S] : k \in 0..n}

(***************************************************************************)
(* std::str::from_utf8 and char encoding (UTF-8, RFC 3629).                *)
(***************************************************************************)
IsCont(b) == b >= 128 /\ b <= 191

Utf8Width(b) ==
    IF b < 128 THEN 1
    ELSE IF b >= 194 /\ b <= 223 THEN 2
    ELSE IF b >= 224 /\ b <= 239 THEN 3
    ELSE IF b >= 240 /\ b <= 244 THEN 4
    ELSE 0

\* the second byte of a 3- or 4-byte sequence has a narrowed range for some leads
SecondOk(lead, b) ==
    IF lead = 224 THEN b >= 160 /\ b <= 191
    ELSE IF lead = 237 THEN b >= 128 /\ b <= 159
    ELSE IF lead = 240 THEN b >= 144 /\ b <= 191
    ELSE IF lead = 244 THEN b >= 128 /\ b <= 143
    ELSE IsCont(b)

RECURSIVE Utf8Decode(_, _, _)
Utf8Decode(b, i, acc) ==
    IF i > Len(b) THEN [ok |-> TRUE, chars |-> acc]
    ELSE LET w == Utf8Width(b[i])
             bad == [ok |-> FALSE, chars |-> <<>>]
         IN IF w = 0 \/ i + w - 1 > Len(b) THEN bad
            ELSE IF w = 1 THEN Utf8Decode(b, i + 1, Append(acc, b[i]))
            ELSE IF w = 2 THEN
                IF IsCont(b[i + 1])
                THEN Utf8Decode(b, i + 2,
                         Append(acc, (b[i] - 192) * 64 + (b[i + 1] - 128)))
                ELSE bad
            ELSE IF w = 3 THEN
                IF SecondOk(b[i], b[i + 1]) /\ IsCont(b[i + 2])
                THEN Utf8Decode(b, i + 3,
                         Append(acc, (b[i] - 224) * 4096 + (b[i + 1] - 128) * 64
                                     + (b[i + 2] - 128)))
                ELSE bad
            ELSE
                IF SecondOk(b[i], b[i + 1]) /\ IsCont(b[i + 2]) /\ IsCont(b[i + 3])
                THEN Utf8Decode(b, i + 4,
                         Append(acc, (b[i] - 240) * 262144 + (b[i + 1] - 128) * 4096
                                     + (b[i + 2] - 128) * 64 + (b[i + 3] - 128)))
                ELSE bad

\* std::str::from_utf8: [ok, chars]; chars is the text as Unicode scalar values
from_utf8(bytes) == Utf8Decode(bytes, 1, <<>>)

EncodeChar(c) ==
    IF c < 128 THEN <<c>>
    ELSE IF c < 2048 THEN <<192 + (c \div 64), 128 + (c % 64)>>
    ELSE IF c < 65536
         THEN <<224 + (c \div 4096), 128 + ((c \div 64) % 64), 128 + (c % 64)>>
    ELSE <<240 + (c \div 262144), 128 + ((c \div 4096) % 64),
           128 + ((c \div 64) % 64), 128 + (c % 64)>>

RECURSIVE Utf8Encode(_)
Utf8Encode(chars) ==
    IF chars = <<>> THEN <<>>
    ELSE EncodeChar(Head(chars)) \o Utf8Encode(Tail(chars))

(***************************************************************************)
(* The heap.  A cell is [kind, data]; kind is "cstring" (data: the bytes   *)
(* with the terminating 0), "entries" (data: the ShelterEntry array),      *)
(* "offsets" (data: the usize array) or "result" (data: a ShelterResult).  *)
(***************************************************************************)
\* The allocator serves each boundary call from an arena of its own: the
\* lowest-numbered one that holds no live cell.  An arena has room for the most
\* cells one call allocates: two strings per entry, the two arrays and the
\* container.
ArenaSize == 2 * MaxItems + 3

ArenaCells(arena) == (arena * ArenaSize + 1)..((arena + 1) * ArenaSize)

ArenaOf(h) ==
    CHOOSE s \in 0..Cardinality(DOMAIN h) :
        /\ ArenaCells(s) \cap DOMAIN h = {}
        /\ \A t \in 0..(s - 1) : ArenaCells(t) \cap DOMAIN h # {}

FreshAddr(h, arena) ==
    CHOOSE a \in ArenaCells(arena) :
        /\ a \notin DOMAIN h
        /\ \A b \in ArenaCells(arena) : b < a => b \in DOMAIN h

Alloc(h, arena, cell) ==
    LET a == FreshAddr(h, arena) IN [heap |-> h @@ (a :> cell), ptr |-> a]

RECURSIVE FreeAll(_, _, _)
\* frees addrs[i..] in order; err is set by a free of an address that is not live
FreeAll(st, addrs, i) ==
    IF i > Len(addrs) THEN st
    ELSE LET a == addrs[i] IN
         IF a \in DOMAIN st.heap
         THEN FreeAll([heap |-> [x \in DOMAIN st.heap \ {a} |-> st.heap[x]],
                       err |-> st.err], addrs, i + 1)
         ELSE FreeAll([heap |-> st.heap, err |-> TRUE], addrs, i + 1)

\* the bytes of the NUL-terminated string stored at p
RECURSIVE UpToNul(_, _)
UpToNul(data, i) ==
    IF i > Len(data) \/ data[i] = 0 THEN <<>>
    ELSE <<data[i]>> \o UpToNul(data, i + 1)

CStrAt(h, p) == UpToNul(h[p].data, 1)

\* CString::new(bytes): fails when bytes holds an interior NUL
CString_new_ok(bytes) == 0 \notin Range(bytes)

\* CString::new(bytes).map(|s| s.into_raw()).unwrap_or(ptr::null_mut())
CString_into_raw_or_null(h, bytes) ==
    IF CString_new_ok(bytes)
    THEN Alloc(h, ArenaOf(h), [kind |-> "cstring", data |-> Append(bytes, 0)])
    ELSE [heap |-> h, ptr |-> NULL]

\* CString::new(bytes).unwrap_or_default().into_raw()
CString_into_raw_or_default(h, arena, bytes) ==
    IF CString_new_ok(bytes)
    THEN Alloc(h, arena, [kind |-> "cstring", data |-> Append(bytes, 0)])
    ELSE Alloc(h, arena, [kind |-> "cstring", data |-> <<0>>])

(***************************************************************************)
(* Line index.                                                             *)
(***************************************************************************)
RECURSIVE BuildLineStarts_at_terminator(_, _, _)
\* mutant of BuildLineStarts: records the terminator's own offset
BuildLineStarts_at_terminator(bytes, i, acc) ==
    IF i > Len(bytes) THEN acc
    ELSE BuildLineStarts_at_terminator(bytes, i + 1,
             IF bytes[i] = NL THEN Append(acc, i - 1) ELSE acc)

RECURSIVE BuildLineStarts(_, _, _)
\* bytes[i] is the byte at 0-based offset i - 1, so the line after it starts at i
BuildLineStarts(bytes, i, acc) ==
    IF i > Len(bytes) THEN acc
    ELSE BuildLineStarts(bytes, i + 1,
             IF bytes[i] = NL THEN Append(acc, i) ELSE acc)

line_starts_of(bytes) == BuildLineStarts(bytes, 1, <<0>>)

RECURSIVE BinarySearchLoop(_, _, _, _)
\* the loop of slice::binary_search: base and size over 0-based indices
BinarySearchLoop(s, x, base, size) ==
    IF size > 1
    THEN LET half == size \div 2
             mid == base + half
         IN BinarySearchLoop(s, x, IF s[mid + 1] > x THEN base ELSE mid, size - half)
    ELSE base

\* slice::binary_search: [found, index]
binary_search(s, x) ==
    IF Len(s) = 0 THEN [found |-> FALSE, index |-> 0]
    ELSE LET base == BinarySearchLoop(s, x, 0, Len(s))
         IN IF s[base + 1] = x THEN [found |-> TRUE, index |-> base]
            ELSE [found |-> FALSE, index |-> base + (IF s[base + 1] < x THEN 1 ELSE 0)]

\* mutant of offset_to_line_binary: adds one to the insertion point as well
offset_to_line_binary_plus1(line_starts, offset) ==
    LET r == binary_search(line_starts, offset)
    IN r.index + 1

offset_to_line_binary(line_starts, offset) ==
    LET r == binary_search(line_starts, offset)
    IN IF r.found THEN r.index + 1 ELSE r.index

\* usize::saturating_sub(1)
saturating_sub1(x) == IF x = 0 THEN 0 ELSE x - 1

(***************************************************************************)
(* The tokenizer's items (korni::Entry) and spans.                         *)
(***************************************************************************)
NoSpan == [some |-> FALSE, start |-> 0, end |-> 0]

SomeSpan(s, e) == [some |-> TRUE, start |-> s, end |-> e]

Pair(k, v, ks, vs, q, ex, cm) ==
    [tag |-> "pair", key |-> k, value |-> v, key_span |-> ks, value_span |-> vs,
     quote |-> q, is_exported |-> ex, is_comment |-> cm]

CommentItem ==
    [tag |-> "comment", key |-> <<>>, value |-> <<>>, key_span |-> NoSpan,
     value_span |-> NoSpan, quote |-> 0, is_exported |-> FALSE, is_comment |-> FALSE]

ErrorItem ==
    [tag |-> "error", key |-> <<>>, value |-> <<>>, key_span |-> NoSpan,
     value_span |-> NoSpan, quote |-> 0, is_exported |-> FALSE, is_comment |-> FALSE]

BoolU8(b) == IF b THEN 1 ELSE 0

(***************************************************************************)
(* types.rs                                                                *)
(***************************************************************************)
\* From<ShelterParseOptions> for korni::ParseOptions
korni_ParseOptions(options) ==
    [include_comments |-> options.include_comments # 0,
     track_positions |-> options.track_positions # 0]

\* ShelterEntry::from_korni: [heap, entry]
from_korni(h, arena, kv, line_number, value_end_line) ==
    LET k == CString_into_raw_or_default(h, arena, kv.key)
        v == CString_into_raw_or_default(k.heap, arena, kv.value)
    IN [heap |-> v.heap,
        entry |-> [key |-> k.ptr,
                   key_len |-> Len(kv.key),
                   value |-> v.ptr,
                   value_len |-> Len(kv.value),
                   key_start |-> IF kv.key_span.some THEN kv.key_span.start ELSE 0,
                   key_end |-> IF kv.key_span.some THEN kv.key_span.end ELSE 0,
                   value_start |-> IF kv.value_span.some THEN kv.value_span.start ELSE 0,
                   value_end |-> IF kv.value_span.some THEN kv.value_span.end ELSE 0,
                   line_number |-> line_number,
                   value_end_line |-> value_end_line,
                   quote_type |-> kv.quote,
                   is_exported |-> BoolU8(kv.is_exported),
                   is_comment |-> BoolU8(kv.is_comment)]]

\* ShelterResult::ok: [heap, ptr]
ShelterResult_ok(h, arena, entries, line_offsets) ==
    LET e == IF entries = <<>> THEN [heap |-> h, ptr |-> NULL]
             ELSE Alloc(h, arena, [kind |-> "entries", data |-> entries])
        l == IF line_offsets = <<>> THEN [heap |-> e.heap, ptr |-> NULL]
             ELSE Alloc(e.heap, arena, [kind |-> "offsets", data |-> line_offsets])
    IN Alloc(l.heap, arena,
             [kind |-> "result",
              data |-> [entries |-> e.ptr,
                        count |-> Len(entries),
                        line_offsets |-> l.ptr,
                        line_count |-> Len(line_offsets),
                        error |-> NULL]])

\* "Unknown error"
MsgUnknown == <<85, 110, 107, 110, 111, 119, 110, 32, 101, 114, 114, 111, 114>>

\* ShelterResult::err: [heap, ptr]
ShelterResult_err(h, arena, message) ==
    LET e == Alloc(h, arena,
                 [kind |-> "cstring",
                  data |-> Append(IF CString_new_ok(message) THEN message
                                  ELSE MsgUnknown, 0)])
    IN Alloc(e.heap, arena,
             [kind |-> "result",
              data |-> [entries |-> NULL,
                        count |-> 0,
                        line_offsets |-> NULL,
                        line_count |-> 0,
                        error |-> e.ptr]])

(***************************************************************************)
(* ffi.rs: shelter_parse                                                   *)
(***************************************************************************)
\* "Input is null"
MsgInputNull == <<73, 110, 112, 117, 116, 32, 105, 115, 32, 110, 117, 108, 108>>

\* "Invalid UTF-8: " followed by the Utf8Error's text, here "invalid utf-8"
MsgInvalidUtf8 ==
    <<73, 110, 118, 97, 108, 105, 100, 32, 85, 84, 70, 45, 56, 58, 32>>
    \o <<105, 110, 118, 97, 108, 105, 100, 32, 117, 116, 102, 45, 56>>

RECURSIVE ConvertEntries_keep_comments(_, _, _, _, _)
\* mutant of ConvertEntries: a comment item becomes an entry too
ConvertEntries_keep_comments(items, i, line_starts, arena, st) ==
    IF i > Len(items) THEN st
    ELSE LET it == items[i] IN
         IF it.tag # "error"
         THEN LET line_number ==
                      IF it.key_span.some
                      THEN offset_to_line_binary(line_starts, it.key_span.start)
                      ELSE 0
                  value_end_line ==
                      IF it.value_span.some
                      THEN offset_to_line_binary(line_starts,
                               saturating_sub1(it.value_span.end))
                      ELSE line_number
                  r == from_korni(st.heap, arena, it, line_number, value_end_line)
              IN ConvertEntries_keep_comments(items, i + 1, line_starts, arena,
                     [heap |-> r.heap, entries |-> Append(st.entries, r.entry)])
         ELSE ConvertEntries_keep_comments(items, i + 1, line_starts, arena, st)

RECURSIVE ConvertEntries_end_line_zero(_, _, _, _, _)
\* mutant of ConvertEntries: value_end_line falls back to 0, not to line_number
ConvertEntries_end_line_zero(items, i, line_starts, arena, st) ==
    IF i > Len(items) THEN st
    ELSE LET it == items[i] IN
         IF it.tag = "pair"
         THEN LET line_number ==
                      IF it.key_span.some
                      THEN offset_to_line_binary(line_starts, it.key_span.start)
                      ELSE 0
                  value_end_line ==
                      IF it.value_span.some
                      THEN offset_to_line_binary(line_starts,
                               saturating_sub1(it.value_span.end))
                      ELSE 0
                  r == from_korni(st.heap, arena, it, line_number, value_end_line)
              IN ConvertEntries_end_line_zero(items, i + 1, line_starts, arena,
                     [heap |-> r.heap, entries |-> Append(st.entries, r.entry)])
         ELSE ConvertEntries_end_line_zero(items, i + 1, line_starts, arena, st)

RECURSIVE ConvertEntries(_, _, _, _, _)
\* the loop over parsed_entries; st is [heap, entries]
ConvertEntries(items, i, line_starts, arena, st) ==
    IF i > Len(items) THEN st
    ELSE LET it == items[i] IN
         IF it.tag = "pair"
         THEN LET line_number ==
                      IF it.key_span.some
                      THEN offset_to_line_binary(line_starts, it.key_span.start)
                      ELSE 0
                  value_end_line ==
                      IF it.value_span.some
                      THEN offset_to_line_binary(line_starts,
                               saturating_sub1(it.value_span.end))
                      ELSE line_number
                  r == from_korni(st.heap, arena, it, line_number, value_end_line)
              IN ConvertEntries(items, i + 1, line_starts, arena,
                     [heap |-> r.heap, entries |-> Append(st.entries, r.entry)])
         ELSE ConvertEntries(items, i + 1, line_starts, arena, st)

\* mutant of shelter_parse_ret: the bytes are taken for text without validation
shelter_parse_ret_unchecked(h, input, options, korni_out) ==
    IF input.null
    THEN ShelterResult_err(h, ArenaOf(h), MsgInputNull) @@ [ran |-> FALSE]
    ELSE LET line_starts == line_starts_of(input.bytes)
             conv == ConvertEntries(korni_out, 1, line_starts, ArenaOf(h),
                         [heap |-> h, entries |-> <<>>])
         IN ShelterResult_ok(conv.heap, ArenaOf(h), conv.entries, line_starts)
            @@ [ran |-> TRUE]

\* the body of shelter_parse: [heap, ptr, ran]; ran: the tokenizer was called.
\* korni_out is what korni::parse_with_options returns for this text and options.
shelter_parse_ret(h, input, options, korni_out) ==
    IF input.null
    THEN ShelterResult_err(h, ArenaOf(h), MsgInputNull) @@ [ran |-> FALSE]
    ELSE IF ~from_utf8(input.bytes).ok
    THEN ShelterResult_err(h, ArenaOf(h), MsgInvalidUtf8) @@ [ran |-> FALSE]
    ELSE LET line_starts == line_starts_of(input.bytes)
             conv == ConvertEntries(korni_out, 1, line_starts, ArenaOf(h),
                         [heap |-> h, entries |-> <<>>])
         IN ShelterResult_ok(conv.heap, ArenaOf(h), conv.entries, line_starts)
            @@ [ran |-> TRUE]

shelter_parse(input, options, korni_out) ==
    /\ Cardinality(live) < MaxLive
    /\ LET r == shelter_parse_ret(heap, input, options, korni_out)
       IN /\ heap' = r.heap
          /\ live' = IF r.ptr = NULL THEN live
                     ELSE live \cup {[ptr |-> r.ptr, kind |-> "result"]}
          /\ call' = [fn |-> "shelter_parse", input |-> input, options |-> options,
                      korni |-> korni_out, ran |-> r.ran, ret |-> r.ptr,
                      freed |-> {}, owned |-> {}]
    /\ UNCHANGED memErr

(***************************************************************************)
(* ffi.rs: shelter_free_result, shelter_free_string                        *)
(***************************************************************************)
RECURSIVE EntryStrings(_, _)
\* the key and value pointers the release loop frees, entry by entry
EntryStrings(entries, i) ==
    IF i > Len(entries) THEN <<>>
    ELSE (IF entries[i].key # NULL THEN <<entries[i].key>> ELSE <<>>)
         \o (IF entries[i].value # NULL THEN <<entries[i].value>> ELSE <<>>)
         \o EntryStrings(entries, i + 1)

\* mutant of free_result_addrs: the error message is not freed
free_result_addrs_leak(h, p) ==
    LET result == h[p].data
    IN (IF result.entries # NULL /\ result.count > 0
        THEN EntryStrings(SubSeq(h[result.entries].data, 1, result.count), 1)
             \o <<result.entries>>
        ELSE <<>>)
       \o (IF result.line_offsets # NULL /\ result.line_count > 0
           THEN <<result.line_offsets>> ELSE <<>>)
       \o <<p>>

\* the addresses shelter_free_result(p) frees, in order (p is not null)
free_result_addrs(h, p) ==
    LET result == h[p].data
    IN (IF result.entries # NULL /\ result.count > 0
        THEN EntryStrings(SubSeq(h[result.entries].data, 1, result.count), 1)
             \o <<result.entries>>
        ELSE <<>>)
       \o (IF result.line_offsets # NULL /\ result.line_count > 0
           THEN <<result.line_offsets>> ELSE <<>>)
       \o (IF result.error # NULL THEN <<result.error>> ELSE <<>>)
       \o <<p>>

\* every allocation reachable from the result handle p
ResultReach(h, p) ==
    LET result == h[p].data
    IN (({p} \cup {result.line_offsets, result.error})
        \cup (IF result.entries = NULL THEN {}
              ELSE {result.entries}
                   \cup UNION {{e.key, e.value} :
                                  e \in Range(h[result.entries].data)}))
       \ {NULL}

shelter_free_result(p) ==
    /\ \/ p = NULL
       \/ [ptr |-> p, kind |-> "result"] \in live
    /\ IF p = NULL
       THEN /\ UNCHANGED <<heap, live, memErr>>
            /\ call' = [fn |-> "shelter_free_result", arg |-> p,
                        freed |-> {}, owned |-> {}]
       ELSE LET addrs == free_result_addrs(heap, p)
                r == FreeAll([heap |-> heap, err |-> FALSE], addrs, 1)
            IN /\ heap' = r.heap
               /\ memErr' = (memErr \/ r.err)
               /\ live' = live \ {[ptr |-> p, kind |-> "result"]}
               /\ call' = [fn |-> "shelter_free_result", arg |-> p,
                           freed |-> DOMAIN heap \ DOMAIN r.heap,
                           owned |-> ResultReach(heap, p)]

\* the addresses shelter_free_string(p) frees
free_string_addrs(p) == IF p # NULL THEN <<p>> ELSE <<>>

shelter_free_string(p) ==
    /\ \/ p = NULL
       \/ [ptr |-> p, kind |-> "string"] \in live
    /\ LET r == FreeAll([heap |-> heap, err |-> FALSE], free_string_addrs(p), 1)
       IN /\ heap' = r.heap
          /\ memErr' = (memErr \/ r.err)
          /\ live' = live \ {[ptr |-> p, kind |-> "string"]}
          /\ call' = [fn |-> "shelter_free_string", arg |-> p,
                      freed |-> DOMAIN heap \ DOMAIN r.heap,
                      owned |-> {p} \ {NULL}]

(***************************************************************************)
(* masker.rs: the masking engine, over characters.                         *)
(***************************************************************************)
\* masker::mask_full(value, mask_char, None)
mask_full(chars, c) == [i \in 1..Len(chars) |-> c]

\* masker::mask_partial(value, mask_char, show_start, show_end, min_mask, None)
mask_partial(chars, c, show_start, show_end, min_mask) ==
    LET len == Len(chars) IN
    IF show_start + show_end >= len \/ len - show_start - show_end < min_mask
    THEN mask_full(chars, c)
    ELSE SubSeq(chars, 1, show_start)
         \o [i \in 1..(len - show_start - show_end) |-> c]
         \o SubSeq(chars, len - show_end + 1, len)

\* masker::mask_fixed(value, mask_char, output_len)
mask_fixed(chars, c, output_len) ==
    IF output_len = 0 THEN mask_full(chars, c)
    ELSE [i \in 1..output_len |-> c]

\* masker::mask_value(value, &options)
mask_value(chars, options) ==
    IF options.mode = 1
    THEN mask_partial(chars, options.mask_char, options.show_start,
                      options.show_end, options.min_mask)
    ELSE IF options.mask_length # 0
    THEN mask_fixed(chars, options.mask_char, options.mask_length)
    ELSE mask_full(chars, options.mask_char)

(***************************************************************************)
(* ffi.rs: the masking entry points.  A value is [null, bytes]; each       *)
(* operator below is the body of its entry point and yields [heap, ptr].   *)
(***************************************************************************)
\* mask_char as u8 as char: the byte's bit pattern as a scalar value 0..255
mask_char_of(mask_char) == mask_char % 256

\* mutant of shelter_mask_full_ret: one mask character per byte of the value
shelter_mask_full_ret_bytes(h, value, mask_char) ==
    IF value.null THEN [heap |-> h, ptr |-> NULL]
    ELSE LET value_str == from_utf8(value.bytes) IN
         IF ~value_str.ok THEN [heap |-> h, ptr |-> NULL]
         ELSE CString_into_raw_or_null(h,
                  Utf8Encode(mask_full(value.bytes, mask_char_of(mask_char))))

shelter_mask_full_ret(h, value, mask_char) ==
    IF value.null THEN [heap |-> h, ptr |-> NULL]
    ELSE LET value_str == from_utf8(value.bytes) IN
         IF ~value_str.ok THEN [heap |-> h, ptr |-> NULL]
         ELSE CString_into_raw_or_null(h,
                  Utf8Encode(mask_full(value_str.chars, mask_char_of(mask_char))))

\* mutant of shelter_mask_partial_ret: show_start and show_end change places
shelter_mask_partial_ret_swapped(h, value, mask_char, show_start, show_end, min_mask) ==
    IF value.null THEN [heap |-> h, ptr |-> NULL]
    ELSE LET value_str == from_utf8(value.bytes) IN
         IF ~value_str.ok THEN [heap |-> h, ptr |-> NULL]
         ELSE CString_into_raw_or_null(h,
                  Utf8Encode(mask_partial(value_str.chars, mask_char_of(mask_char),
                                          show_end, show_start, min_mask)))

shelter_mask_partial_ret(h, value, mask_char, show_start, show_end, min_mask) ==
    IF value.null THEN [heap |-> h, ptr |-> NULL]
    ELSE LET value_str == from_utf8(value.bytes) IN
         IF ~value_str.ok THEN [heap |-> h, ptr |-> NULL]
         ELSE CString_into_raw_or_null(h,
                  Utf8Encode(mask_partial(value_str.chars, mask_char_of(mask_char),
                                          show_start, show_end, min_mask)))

\* mutant of shelter_mask_fixed_ret: bytes that are not valid text are masked
\* as the empty text
shelter_mask_fixed_ret_unchecked(h, value, mask_char, output_len) ==
    IF value.null THEN [heap |-> h, ptr |-> NULL]
    ELSE CString_into_raw_or_null(h,
             Utf8Encode(mask_fixed(from_utf8(value.bytes).chars,
                                   mask_char_of(mask_char), output_len)))

shelter_mask_fixed_ret(h, value, mask_char, output_len) ==
    IF value.null THEN [heap |-> h, ptr |-> NULL]
    ELSE LET value_str == from_utf8(value.bytes) IN
         IF ~value_str.ok THEN [heap |-> h, ptr |-> NULL]
         ELSE CString_into_raw_or_null(h,
                  Utf8Encode(mask_fixed(value_str.chars, mask_char_of(mask_char),
                                        output_len)))

shelter_mask_value_ret(h, value, options) ==
    IF value.null THEN [heap |-> h, ptr |-> NULL]
    ELSE LET value_str == from_utf8(value.bytes) IN
         IF ~value_str.ok THEN [heap |-> h, ptr |-> NULL]
         ELSE CString_into_raw_or_null(h,
                  Utf8Encode(mask_value(value_str.chars, options)))

\* what every masking entry point does with its result: the caller holds a
\* non-null pointer until it releases it
MaskReturn(fn, value, args, r) ==
    /\ heap' = r.heap
    /\ live' = IF r.ptr = NULL THEN live
               ELSE live \cup {[ptr |-> r.ptr, kind |-> "string"]}
    /\ call' = [fn |-> fn, value |-> value, args |-> args, ret |-> r.ptr,
                freed |-> {}, owned |-> {}]
    /\ UNCHANGED memErr

shelter_mask_full(value, mask_char) ==
    /\ Cardinality(live) < MaxLive
    /\ MaskReturn("shelter_mask_full", value, [mask_char |-> mask_char],
                  shelter_mask_full_ret(heap, value, mask_char))

shelter_mask_partial(value, mask_char, show_start, show_end, min_mask) ==
    /\ Cardinality(live) < MaxLive
    /\ MaskReturn("shelter_mask_partial", value,
                  [mask_char |-> mask_char, show_start |-> show_start,
                   show_end |-> show_end, min_mask |-> min_mask],
                  shelter_mask_partial_ret(heap, value, mask_char, show_start,
                                           show_end, min_mask))

shelter_mask_fixed(value, mask_char, output_len) ==
    /\ Cardinality(live) < MaxLive
    /\ MaskReturn("shelter_mask_fixed", value,
                  [mask_char |-> mask_char, output_len |-> output_len],
                  shelter_mask_fixed_ret(heap, value, mask_char, output_len))

shelter_mask_value(value, options) ==
    /\ Cardinality(live) < MaxLive
    /\ MaskReturn("shelter_mask_value", value, options,
                  shelter_mask_value_ret(heap, value, options))

(***************************************************************************)
(* Inputs.                                                                 *)
(***************************************************************************)
NullInput == [null |-> TRUE, bytes |-> <<>>]

Text(bytes) == [null |-> FALSE, bytes |-> bytes]

\* '\n', 'a', and the two bytes of U+00E9: alone each of the two is invalid
InputAlphabet == {NL, 97, 195, 169}

ParseInputs == {NullInput} \cup {Text(b) : b \in SeqsUpTo(InputAlphabet, MaxLen)}

\* NUL, 'a', and the two bytes of U+00E9
ValueAlphabet == {0, 97, 195, 169}

MaskValues == {NullInput} \cup {Text(b) : b \in SeqsUpTo(ValueAlphabet, MaxValLen)}

\* NUL, '*', and 0xE9, which `as u8 as char` turns into U+00E9
MaskChars == {0, 42, 233}

AllParseOptions == [include_comments : {0, 1}, track_positions : {0, 1}]

\* ShelterParseOptions::default()
DefaultParseOptions == [include_comments |-> 1, track_positions |-> 1]

\* ShelterMaskOptions::default()
DefaultMaskOptions ==
    [mask_char |-> 42, mask_length |-> 0, mode |-> 0, show_start |-> 0,
     show_end |-> 0, min_mask |-> 3]

(***************************************************************************)
(* What the tokenizer may yield.  It is an external collaborator: any      *)
(* sequence of pair, comment and error items, a pair carrying spans only   *)
(* when position tracking is on.                                           *)
(***************************************************************************)
\* "K" and "K\0"
KeyTexts == {<<75>>, <<75, 0>>}

\* "", and "\0v"
ValueTexts == {<<>>, <<0, 118>>}

\* pair items that differ in their texts, without spans
TextPairs ==
    {Pair(k, v, NoSpan, NoSpan, 0, FALSE, FALSE) : k \in KeyTexts, v \in ValueTexts}

\* a double-quoted, exported pair on a commented line, with spans
SpannedPair == Pair(<<75, 69, 89>>, <<118>>, SomeSpan(0, 1), SomeSpan(2, 3), 2, TRUE, TRUE)

ParseItems(korni_opts) ==
    TextPairs \cup {CommentItem, ErrorItem}
    \cup (IF korni_opts.track_positions THEN {SpannedPair} ELSE {})

KorniOutputs(korni_opts) == SeqsUpTo(ParseItems(korni_opts), MaxItems)

\* every span over the offsets 0 .. MaxLen + 1, or none
Spans ==
    {NoSpan} \cup {SomeSpan(s, e) : s \in 0..(MaxLen + 1), e \in 0..(MaxLen + 1)}

SpanOptions(korni_opts) ==
    IF korni_opts.track_positions THEN {x \in Spans : x.start <= x.end} ELSE {NoSpan}

\* one pair item with any key span and any value span
SpanOutputs(korni_opts) ==
    {<<Pair(<<75>>, <<118>>, ks, vs, 0, FALSE, FALSE)>> :
        ks \in SpanOptions(korni_opts), vs \in SpanOptions(korni_opts)}

(***************************************************************************)
(* Specification Spec: any interleaving of calls over several live         *)
(* handles, each handle released once by its matching release function.    *)
(***************************************************************************)
\* the parse calls of the interleaving: a null input and invalid UTF-8 (error
\* results), and the text "a\n" with tokenizer outputs of 0, 1 and N pairs
LifeParseCalls ==
    {[input |-> NullInput, korni |-> <<>>],
     [input |-> Text(<<169>>), korni |-> <<>>],
     [input |-> Text(<<97, NL>>), korni |-> <<CommentItem>>],
     [input |-> Text(<<97, NL>>), korni |-> <<ErrorItem, SpannedPair>>],
     [input |-> Text(<<97, NL>>),
      korni |-> <<Pair(<<75, 0>>, <<>>, NoSpan, NoSpan, 0, FALSE, FALSE),
                  SpannedPair>>]}

\* null, invalid UTF-8, "a", and "a\0"
LifeValues == {NullInput, Text(<<169>>), Text(<<97>>), Text(<<97, 0>>)}

ResultHandles == {h.ptr : h \in {x \in live : x.kind = "result"}}

StringHandles == {h.ptr : h \in {x \in live : x.kind = "string"}}

Init ==
    /\ heap = <<>>
    /\ live = {}
    /\ call = [fn |-> "none", freed |-> {}, owned |-> {}]
    /\ memErr = FALSE

LifeParse ==
    \E c \in LifeParseCalls : shelter_parse(c.input, DefaultParseOptions, c.korni)

LifeMaskFull ==
    \E value \in LifeValues : shelter_mask_full(value, 42)

LifeMaskPartial ==
    \E value \in LifeValues : shelter_mask_partial(value, 42, 1, 0, 0)

LifeMaskFixed ==
    \E value \in LifeValues : shelter_mask_fixed(value, 42, 2)

LifeMaskValue ==
    \E value \in LifeValues : shelter_mask_value(value, DefaultMaskOptions)

FreeResult ==
    \E p \in {NULL} \cup ResultHandles : shelter_free_result(p)

FreeString ==
    \E p \in {NULL} \cup StringHandles : shelter_free_string(p)

Next ==
    \/ LifeParse
    \/ LifeMaskFull
    \/ LifeMaskPartial
    \/ LifeMaskFixed
    \/ LifeMaskValue
    \/ FreeResult
    \/ FreeString

Spec == Init /\ [][Next]_vars

(***************************************************************************)
(* Specification SpecParse: a first call of shelter_parse, over every *)
(* input text and every tokenizer output of the bounds, then its release.  *)
(***************************************************************************)
ParseAny ==
    /\ call.fn = "none"
    /\ \E input \in ParseInputs, options \in AllParseOptions :
           \E korni_out \in KorniOutputs(korni_ParseOptions(options)) :
               shelter_parse(input, options, korni_out)

NextParse ==
    \/ ParseAny
    \/ FreeResult

SpecParse == Init /\ [][NextParse]_vars

(***************************************************************************)
(* Specification SpecSpan: a first call of shelter_parse whose         *)
(* tokenizer output is one pair, over every key and value span.            *)
(***************************************************************************)
ParseSpans ==
    /\ call.fn = "none"
    /\ \E input \in ParseInputs, options \in AllParseOptions :
           \E korni_out \in SpanOutputs(korni_ParseOptions(options)) :
               shelter_parse(input, options, korni_out)

NextSpan ==
    \/ ParseSpans
    \/ FreeResult

SpecSpan == Init /\ [][NextSpan]_vars

(***************************************************************************)
(* Specification SpecMask: a first masking call, over every value and     *)
(* every parameter of the bounds, then its release.                        *)
(***************************************************************************)
MaskOptionSets ==
    [mask_char : MaskChars, mask_length : {0, MaxShow}, mode : {0, 1},
     show_start : {0, 1}, show_end : {0, 1}, min_mask : {0, MaxShow}]

MaskFullAny ==
    /\ call.fn = "none"
    /\ \E value \in MaskValues, mask_char \in MaskChars :
           shelter_mask_full(value, mask_char)

MaskPartialAny ==
    /\ call.fn = "none"
    /\ \E value \in MaskValues, mask_char \in MaskChars :
           \E show_start \in 0..MaxShow, show_end \in 0..MaxShow, min_mask \in 0..MaxShow :
               shelter_mask_partial(value, mask_char, show_start, show_end, min_mask)

MaskFixedAny ==
    /\ call.fn = "none"
    /\ \E value \in MaskValues, mask_char \in MaskChars, output_len \in 0..MaxShow :
           shelter_mask_fixed(value, mask_char, output_len)

MaskValueAny ==
    /\ call.fn = "none"
    /\ \E value \in MaskValues, options \in MaskOptionSets :
           shelter_mask_value(value, options)

NextMask ==
    \/ MaskFullAny
    \/ MaskPartialAny
    \/ MaskFixedAny
    \/ MaskValueAny
    \/ FreeString

SpecMask == Init /\ [][NextMask]_vars

(***************************************************************************)
(* Reading the last call back from the state.                              *)
(***************************************************************************)
\* shelter_parse was the last call
Parsed == call.fn = "shelter_parse"

\* shelter_parse was the last call and its input was valid text
ParsedText == Parsed /\ ~call.input.null /\ from_utf8(call.input.bytes).ok

\* the ShelterResult behind the returned handle
Result == heap[call.ret].data

\* the entries array of the result, as a sequence
ResultEntries == IF Result.entries = NULL THEN <<>> ELSE heap[Result.entries].data

\* the pair items among the tokenizer's output, in its order
Pairs == SelectSeq(call.korni, LAMBDA it : it.tag = "pair")

IsErrorState(r) ==
    /\ r.error # NULL
    /\ r.entries = NULL
    /\ r.count = 0
    /\ r.line_offsets = NULL
    /\ r.line_count = 0

IsSuccessState(r) ==
    /\ r.error = NULL
    /\ r.line_offsets # NULL
    /\ r.line_count >= 1

\* a masking entry point was the last call
Masked ==
    call.fn \in {"shelter_mask_full", "shelter_mask_partial", "shelter_mask_fixed",
                 "shelter_mask_value"}

\* the value handed to the masking call was valid text
MaskedText == Masked /\ ~call.value.null /\ from_utf8(call.value.bytes).ok

\* the characters of the value handed to the masking call
ValueChars == from_utf8(call.value.bytes).chars

\* the characters of the string the masking call returned
ReturnedChars == from_utf8(CStrAt(heap, call.ret)).chars

(***************************************************************************)
(* C1                                                                      *)
(***************************************************************************)
\* every allocation a handle owns: all that is reachable from it
Owned(h) == IF h.kind = "result" THEN ResultReach(heap, h.ptr) ELSE {h.ptr}

\* C1: in every interleaving of parse, mask and release calls over several live
\* handles, each released once by its matching release function, no free hits
\* an address that is not live (no double free), every live handle's
\* allocations are live, no allocation belongs to two handles, every live
\* allocation belongs to a live handle (so none is left once all handles are
\* released), and a release frees exactly the allocations of its handle.
C1_OwnedAndFreedOnce ==
    /\ ~memErr
    /\ \A h \in live :
           /\ h.ptr \in DOMAIN heap
           /\ heap[h.ptr].kind = (IF h.kind = "result" THEN "result" ELSE "cstring")
           /\ h.kind = "result" /\ heap[h.ptr].data.entries # NULL
                  => heap[h.ptr].data.entries \in DOMAIN heap
    /\ (\A h \in live : h.ptr \in DOMAIN heap)
           => /\ \A h1, h2 \in live : h1 # h2 => Owned(h1) \cap Owned(h2) = {}
              /\ DOMAIN heap = UNION {Owned(h) : h \in live}
    /\ call.freed = call.owned

\* a result with N = 2 entries (seven allocations) is released while another
\* handle stays live
C1_Witness ==
    /\ call.fn = "shelter_free_result"
    /\ Cardinality(call.freed) = 7
    /\ Cardinality(live) = 1

(***************************************************************************)
(* C2                                                                      *)
(***************************************************************************)
\* C2: shelter_parse never returns null; the result is in the error state or in
\* the success state and never in both; it is in the error state exactly when
\* the input pointer is null or the bytes are not valid UTF-8, and then the
\* tokenizer was not run and there is no entry.
C2_ErrorOrSuccess ==
    Parsed =>
        /\ call.ret # NULL
        /\ call.ret \in DOMAIN heap
        /\ IsErrorState(Result) # IsSuccessState(Result)
        /\ IsErrorState(Result)
               <=> (call.input.null \/ ~from_utf8(call.input.bytes).ok)
        /\ IsErrorState(Result) => ~call.ran /\ ResultEntries = <<>>

\* an error result for bytes that are not valid UTF-8
C2_Witness ==
    /\ Parsed
    /\ ~call.input.null
    /\ ~from_utf8(call.input.bytes).ok
    /\ IsErrorState(Result)
    /\ CStrAt(heap, Result.error) = MsgInvalidUtf8

(***************************************************************************)
(* C3                                                                      *)
(***************************************************************************)
\* the entry carries the pair's lengths, spans, quote style and flags
EntryOfPair(e, kv) ==
    /\ e.key_len = Len(kv.key)
    /\ e.value_len = Len(kv.value)
    /\ <<e.key_start, e.key_end>>
           = (IF kv.key_span.some THEN <<kv.key_span.start, kv.key_span.end>>
              ELSE <<0, 0>>)
    /\ <<e.value_start, e.value_end>>
           = (IF kv.value_span.some THEN <<kv.value_span.start, kv.value_span.end>>
              ELSE <<0, 0>>)
    /\ e.quote_type = kv.quote
    /\ e.is_exported = BoolU8(kv.is_exported)
    /\ e.is_comment = BoolU8(kv.is_comment)

\* C3: for valid text and any tokenizer output, the result is a success result
\* whose entries are the pair items, one entry per pair, in the tokenizer's
\* order, count being their number; comments and errors add no entry and do
\* not make the result an error result.
C3_EntriesArePairs ==
    ParsedText =>
        /\ Result.error = NULL
        /\ Result.count = Len(Pairs)
        /\ Len(ResultEntries) = Len(Pairs)
        /\ \A i \in 1..Len(Pairs) : EntryOfPair(ResultEntries[i], Pairs[i])

\* an error item and a comment item around nothing but one pair: one entry
C3_Witness ==
    /\ ParsedText
    /\ \E i \in 1..Len(call.korni) : call.korni[i].tag # "pair"
    /\ Len(Pairs) = 1
    /\ Result.count = 1
    /\ Pairs[1].key_span.some

(***************************************************************************)
(* C4                                                                      *)
(***************************************************************************)
\* the 1-based line of offset o: i + 1 for the greatest 0-based index i with L[i] <= o
LineOf(L, o) ==
    CHOOSE n \in 1..Len(L) :
        /\ L[n] <= o
        /\ \A m \in 1..Len(L) : L[m] <= o => m <= n

\* the line index of the result, as a sequence
ResultLines == heap[Result.line_offsets].data

\* C4: every line number shelter_parse resolves through the line index of its
\* text is i + 1 for the greatest 0-based index i whose line start does not
\* exceed the offset: the key's line from the key span's start, the value's
\* end line from the value span's end less one; a line start resolves to its
\* own line and offset 0 to line 1.
C4_ResolveIsGreatestStart ==
    ParsedText =>
        \A i \in 1..Len(Pairs) :
            /\ Pairs[i].key_span.some
                   => ResultEntries[i].line_number
                          = LineOf(ResultLines, Pairs[i].key_span.start)
            /\ Pairs[i].value_span.some
                   => ResultEntries[i].value_end_line
                          = LineOf(ResultLines,
                                   saturating_sub1(Pairs[i].value_span.end))

\* an offset past the last of three line starts resolves to line 3, and an
\* offset that is the second line start to line 2
C4_Witness ==
    /\ ParsedText
    /\ Len(ResultLines) = 3
    /\ Len(Pairs) = 1
    /\ Pairs[1].key_span.some
    /\ Pairs[1].key_span.start > ResultLines[3]
    /\ ResultEntries[1].line_number = 3
    /\ Pairs[1].value_span.some
    /\ saturating_sub1(Pairs[1].value_span.end) = ResultLines[2]
    /\ ResultEntries[1].value_end_line = 2

(***************************************************************************)
(* C5                                                                      *)
(***************************************************************************)
\* the 0-based offsets that follow a line terminator of the text
AfterTerminators(bytes) == {i \in 1..Len(bytes) : bytes[i] = NL}

\* C5: for valid text the line index of the result begins with 0, is strictly
\* increasing and holds after the 0 exactly the offsets p + 1 of the
\* terminators at p; line_count is 1 + the number of terminators, never 0.
C5_LineIndex ==
    ParsedText =>
        /\ Result.line_offsets # NULL
        /\ ResultLines[1] = 0
        /\ \A i \in 1..(Len(ResultLines) - 1) : ResultLines[i] < ResultLines[i + 1]
        /\ Range(ResultLines) \ {0} = AfterTerminators(call.input.bytes)
        /\ Result.line_count = Len(ResultLines)
        /\ Result.line_count = 1 + Cardinality(AfterTerminators(call.input.bytes))
        /\ AfterTerminators(call.input.bytes) = {} => ResultLines = <<0>>

\* a text of two terminators: three lines
C5_Witness ==
    /\ ParsedText
    /\ Cardinality(AfterTerminators(call.input.bytes)) = 2
    /\ ResultLines = <<0, 1, 2>>

(***************************************************************************)
(* C6                                                                      *)
(***************************************************************************)
\* what holds of an entry whichever spans its pair has: without a value span
\* value_end_line is line_number, without a key span line_number is 0
SpanFallbacks(e, kv) ==
    /\ ~kv.value_span.some => e.value_end_line = e.line_number
    /\ ~kv.key_span.some => e.line_number = 0

PartialExpected ==
    LET len == Len(ValueChars)
        c == call.args.mask_char
        show_start == call.args.show_start
        show_end == call.args.show_end
    IN IF show_start + show_end >= len \/ len - show_start - show_end < call.args.min_mask
       THEN [i \in 1..len |-> c]
       ELSE [i \in 1..len |->
                IF i <= show_start \/ i > len - show_end THEN ValueChars[i] ELSE c]

\* C7 as stated: for every valid-text value and all show_start, show_end,
\* min_mask, shelter_mask_partial returns the full mask when the windows cover
\* the value or fewer than min_mask characters would be masked, and otherwise
\* the first show_start characters, the mask characters, and the last
\* show_end characters, counted in characters.
C7_AsStated ==
    call.fn = "shelter_mask_partial" /\ MaskedText =>
        /\ call.ret # NULL
        /\ ReturnedChars = PartialExpected

\* C7 as amended: the same string is returned provided it holds no NUL
\* character; when it would hold one (a NUL among the characters shown, or a
\* NUL mask character that is used) shelter_mask_partial returns null.
C7_PartialUnlessNul ==
    call.fn = "shelter_mask_partial" /\ MaskedText =>
        IF 0 \in Range(PartialExpected)
        THEN call.ret = NULL
        ELSE /\ call.ret # NULL
             /\ ReturnedChars = PartialExpected

\* a value with a two-byte character, shown at both ends around a mask
C7_Witness ==
    /\ call.fn = "shelter_mask_partial"
    /\ MaskedText
    /\ call.ret # NULL
    /\ Len(call.value.bytes) > Len(ValueChars)
    /\ call.args.show_start = 1
    /\ call.args.show_end = 1
    /\ Len(ValueChars) = 3
    /\ ValueChars[1] # ValueChars[3]
    /\ ReturnedChars = <<ValueChars[1], call.args.mask_char, ValueChars[3]>>

(***************************************************************************)
(* C8                                                                      *)
(***************************************************************************)
\* C8 as stated: for every valid-text value and every mask character,
\* shelter_mask_full returns a string with as many characters as the value,
\* each of them the mask character.
C8_AsStated ==
    call.fn = "shelter_mask_full" /\ MaskedText =>
        /\ call.ret # NULL
        /\ ReturnedChars = [i \in 1..Len(ValueChars) |-> call.args.mask_char]

\* C8 as amended: that holds for every mask character but NUL, and for the
\* empty value; for the NUL mask character and a non-empty value
\* shelter_mask_full returns null.
C8_FullUnlessNulMask ==
    call.fn = "shelter_mask_full" /\ MaskedText =>
        IF call.args.mask_char = 0 /\ ValueChars # <<>>
        THEN call.ret = NULL
        ELSE /\ call.ret # NULL
             /\ ReturnedChars = [i \in 1..Len(ValueChars) |-> call.args.mask_char]

\* a value of multi-byte characters and a NUL, masked by a character that
\* takes two bytes
C8_Witness ==
    /\ call.fn = "shelter_mask_full"
    /\ MaskedText
    /\ call.ret # NULL
    /\ call.args.mask_char = 233
    /\ 0 \in Range(ValueChars)
    /\ Len(call.value.bytes) > Len(ValueChars)
    /\ Len(CStrAt(heap, call.ret)) = 2 * Len(ValueChars)

(***************************************************************************)
(* C9                                                                      *)
(***************************************************************************)
\* C9: each of the four masking entry points returns null when the value
\* pointer is null or the bytes are not valid UTF-8, and then nothing is
\* allocated and the caller holds no handle.
C9_NullOnBadValue ==
    Masked /\ ~MaskedText =>
        /\ call.ret = NULL
        /\ DOMAIN heap = {}
        /\ live = {}

\* shelter_mask_value on bytes that begin as valid text and end in a lone
\* continuation byte
C9_Witness ==
    /\ call.fn = "shelter_mask_value"
    /\ ~call.value.null
    /\ Len(call.value.bytes) = 2
    /\ call.value.bytes[1] = 97
    /\ ~from_utf8(call.value.bytes).ok
    /\ call.ret = NULL

(***************************************************************************)
(* C10                                                                     *)
(***************************************************************************)
\* C10: for every entry of a success result the key and value pointers are
\* non-null, the NUL-terminated string at key is the tokenizer's key text and
\* key_len its length in bytes, and likewise for value and value_len, also
\* for texts that hold a NUL character.
C10_StringsAndLengths ==
    ParsedText =>
        \A i \in 1..Len(Pairs) :
            LET e == ResultEntries[i] IN
            /\ e.key # NULL
            /\ e.value # NULL
            /\ CStrAt(heap, e.key) = Pairs[i].key
            /\ e.key_len = Len(Pairs[i].key)
            /\ CStrAt(heap, e.value) = Pairs[i].value
            /\ e.value_len = Len(Pairs[i].value)

====
